---- MODULE Spec2Model ----
(***************************************************************************)
(* Model of VM_consolidation.py: the monitor thread (monitor_hosts) and    *)
(* the migration thread (handle_migration), the lock, the migration queue  *)
(* and the host_loads dictionary they share, and the pure functions        *)
(* calculate_utilization, calculate_average_load, determine_host_status.   *)
(*                                                                         *)
(* Percentages are Python floats in the source.  Here a per-container      *)
(* percentage is an integer (the sampled counters are drawn from sets on   *)
(* which the divisions are exact) and an average is the exact rational     *)
(* [num, den] = total / len(vms), compared by cross-multiplication.        *)
(***************************************************************************)
EXTENDS Integers, Sequences, FiniteSets, TLC

\* ---------------------------------------------------------------- constants
THR_max_cpu == 55
THR_min_cpu == 20
THR_max_mem == 55
THR_min_mem == 20

\* Number of passes of the monitor's `while True` loop that are explored.
MaxCycles == 2
\* Largest numerator / denominator of an average fed to determine_host_status
\* when it is checked on its own.
MaxPct == 61
MaxDen == 2

\* The containers the runtime can list, in the order the runtime lists them,
\* and the compose project (host) each is labelled with.
VMOrder == <<"a", "b", "c">>
VMs == {VMOrder[i] : i \in 1..Len(VMOrder)}
Label(vm) == IF vm = "c" THEN "h2" ELSE "h1"
Hosts == {Label(vm) : vm \in VMs}

NoVm == "none"
NoHost == "none"

\* ------------------------------------------------------- container.stats()
\* A stats record: `keys` is the set of keys present in the dictionary the
\* runtime returned (nested keys written with a dot), the other fields are
\* the values of the counters (meaningful only when the key is present).
AllKeys ==
  {"cpu_stats.cpu_usage.total_usage", "cpu_stats.system_cpu_usage",
   "cpu_stats.online_cpus", "precpu_stats", "precpu_stats.cpu_usage",
   "precpu_stats.cpu_usage.total_usage", "precpu_stats.system_cpu_usage",
   "memory_stats.usage", "memory_stats.limit"}

Stats(keys, total, pretotal, system, presystem, cpus, usage, limit) ==
  [keys |-> keys, total_usage |-> total, pre_total_usage |-> pretotal,
   system_cpu_usage |-> system, pre_system_cpu_usage |-> presystem,
   online_cpus |-> cpus, usage |-> usage, limit |-> limit]

\* A complete record of a container using cpu% of one CPU and mem% of its
\* memory limit since the preceding sample.
Load(cpu, mem) == Stats(AllKeys, 1000 + cpu, 1000, 5100, 5000, 1, mem, 100)

\* The stats records a read of the runtime may return while the two threads
\* run: an idle container, a busy one, and the record of a busy container
\* as a daemon that does not report online_cpus returns it.
Idle == Load(10, 5)
Busy == Load(80, 0)
NoOnlineCpus ==
  Stats(AllKeys \ {"cpu_stats.online_cpus"}, 1080, 1000, 5100, 5000, 0, 0, 100)
RuntimeStats == {Idle, Busy, NoOnlineCpus}

\* ------------------------------------------------- calculate_utilization
Raised(e) == [err |-> e, cpu |-> 0, mem |-> 0]
Returned(c, m) == [err |-> "none", cpu |-> c, mem |-> m]

\* Lines 71-78: the CPU percentage, or the exception the lines raise.
cpu_percent(stats) ==
  IF /\ "cpu_stats.system_cpu_usage" \in stats.keys
     /\ "precpu_stats" \in stats.keys
     /\ "precpu_stats.cpu_usage" \in stats.keys
  THEN IF "cpu_stats.cpu_usage.total_usage" \notin stats.keys
       THEN [err |-> "KeyError", val |-> 0]
       ELSE LET pre_total == IF "precpu_stats.cpu_usage.total_usage" \in stats.keys
                             THEN stats.pre_total_usage ELSE 0
                pre_system == IF "precpu_stats.system_cpu_usage" \in stats.keys
                              THEN stats.pre_system_cpu_usage ELSE 0
                cpu_delta == stats.total_usage - pre_total
                system_delta == stats.system_cpu_usage - pre_system
            IN IF system_delta > 0 /\ cpu_delta > 0
               THEN IF "cpu_stats.online_cpus" \notin stats.keys
                    THEN [err |-> "KeyError", val |-> 0]
                    ELSE [err |-> "none",
                          val |-> (cpu_delta * stats.online_cpus * 100) \div system_delta]
               ELSE [err |-> "none", val |-> 0]
  ELSE [err |-> "none", val |-> 0]

\* Lines 80-81: the memory percentage, or the exception the lines raise.
memory_percent(stats) ==
  IF "memory_stats.usage" \in stats.keys /\ "memory_stats.limit" \in stats.keys
  THEN IF stats.limit = 0
       THEN [err |-> "ZeroDivisionError", val |-> 0]
       ELSE [err |-> "none", val |-> (stats.usage * 100) \div stats.limit]
  ELSE [err |-> "none", val |-> 0]

calculate_utilization(stats) ==
  LET c == cpu_percent(stats)
      m == memory_percent(stats)
  IN IF c.err # "none" THEN Raised(c.err)
     ELSE IF m.err # "none" THEN Raised(m.err)
     ELSE Returned(c.val, m.val)

\* ------------------------------------------------ calculate_average_load
RECURSIVE SumCpu(_, _), SumMem(_, _)
SumCpu(vms, reads) ==
  IF vms = <<>> THEN 0
  ELSE calculate_utilization(reads[Head(vms)]).cpu + SumCpu(Tail(vms), reads)
SumMem(vms, reads) ==
  IF vms = <<>> THEN 0
  ELSE calculate_utilization(reads[Head(vms)]).mem + SumMem(Tail(vms), reads)

Seq2Set(s) == {s[i] : i \in 1..Len(s)}

\* Mutant: the totals are returned undivided.
calculate_average_load_totals(vms, reads) ==
  IF \E vm \in Seq2Set(vms) : calculate_utilization(reads[vm]).err # "none"
  THEN [err |-> "raised", avg_cpu |-> [num |-> 0, den |-> 1],
        avg_mem |-> [num |-> 0, den |-> 1]]
  ELSE [err |-> "none",
        avg_cpu |-> [num |-> SumCpu(vms, reads), den |-> 1],
        avg_mem |-> [num |-> SumMem(vms, reads), den |-> 1]]

\* reads[vm] is the stats record the one read of vm returns.  The result is
\* the pair of averages as rationals total/len(vms), or the exception.
calculate_average_load(vms, reads) ==
  IF \E vm \in Seq2Set(vms) : calculate_utilization(reads[vm]).err # "none"
  THEN [err |-> "raised", avg_cpu |-> [num |-> 0, den |-> 1],
        avg_mem |-> [num |-> 0, den |-> 1]]
  ELSE IF Len(vms) = 0
  THEN [err |-> "ZeroDivisionError", avg_cpu |-> [num |-> 0, den |-> 1],
        avg_mem |-> [num |-> 0, den |-> 1]]
  ELSE [err |-> "none",
        avg_cpu |-> [num |-> SumCpu(vms, reads), den |-> Len(vms)],
        avg_mem |-> [num |-> SumMem(vms, reads), den |-> Len(vms)]]

\* ------------------------------------------------- determine_host_status
\* avg > thr and avg < thr for a rational avg = num/den, den > 0.
Gt(avg, thr) == avg.num > thr * avg.den
Lt(avg, thr) == avg.num < thr * avg.den

\* Mutant: the comparisons of lines 111 and 113 made non-strict.
determine_host_status_nonstrict(avg_cpu, avg_mem) ==
  IF ~Lt(avg_cpu, THR_max_cpu) \/ ~Lt(avg_mem, THR_max_mem) THEN "overloaded"
  ELSE IF ~Gt(avg_cpu, THR_min_cpu) /\ ~Gt(avg_mem, THR_min_mem) THEN "underloaded"
  ELSE "normal"

determine_host_status(avg_cpu, avg_mem) ==
  IF Gt(avg_cpu, THR_max_cpu) \/ Gt(avg_mem, THR_max_mem) THEN "overloaded"
  ELSE IF Lt(avg_cpu, THR_min_cpu) /\ Lt(avg_mem, THR_min_mem) THEN "underloaded"
  ELSE "normal"

\* ------------------------------------------------------ max(host_vms, key)
\* Line 141.  sel[vm] = <<s1, s2>> are the stats records returned by the two
\* reads the key makes of vm: calculate_utilization(vm)[0] uses the first,
\* calculate_utilization(vm)[1] the second.
Key(vm, sel) ==
  calculate_utilization(sel[vm][1]).cpu + calculate_utilization(sel[vm][2]).mem

RECURSIVE ArgMax(_, _, _)
\* Python's max: the first element whose key is the largest.
ArgMax(vms, sel, best) ==
  IF vms = <<>> THEN best
  ELSE ArgMax(Tail(vms), sel,
              IF Key(Head(vms), sel) > Key(best, sel) THEN Head(vms) ELSE best)

max_vm_of(vms, sel) ==
  IF \E vm \in Seq2Set(vms) : \E i \in 1..2 :
        calculate_utilization(sel[vm][i]).err # "none"
  THEN [err |-> "raised", vm |-> NoVm]
  ELSE IF vms = <<>> THEN [err |-> "ValueError", vm |-> NoVm]
  ELSE [err |-> "none", vm |-> ArgMax(Tail(vms), sel, Head(vms))]

\* ------------------------------------------------------------------ state
VARIABLES
  lock,             \* threading.Lock: "free", or the thread that holds it
  migration_queue,  \* queue.Queue: sequence of queued containers
  host_loads,       \* the dictionary host -> Node, as a set of <<key, value>>
  logfile,          \* the records logging.info has written
  m_pc, cycle, hosts, todo, host, host_vms, avg_cpu, avg_mem, host_status,
  max_vm,           \* monitor_hosts: position and locals
  e_pc, vm_migrate, new_image,   \* handle_migration: position and locals
  containers,       \* runtime: state of each container
  images,           \* runtime: the images commit has created
  launched,         \* runtime: the containers run has started
  pushed,           \* history: the puts, in order, with their host and cycle
  calls,            \* history: the stop / commit / run calls, in order
  stats_read,       \* history: the stats records read for the host in hand,
                    \* up to the put of its task
  arg, ret          \* input and result of a function checked on its own

vars ==
  <<lock, migration_queue, host_loads, logfile, m_pc, cycle, hosts, todo, host,
    host_vms, avg_cpu, avg_mem, host_status, max_vm, e_pc, vm_migrate,
    new_image, containers, images, launched, pushed, calls, stats_read, arg,
    ret>>

monitor_vars ==
  <<m_pc, cycle, hosts, todo, host, host_vms, avg_cpu, avg_mem, host_status,
    max_vm>>
executor_vars == <<e_pc, vm_migrate, new_image>>
runtime_vars == <<containers, images, launched>>
fn_vars == <<arg, ret>>

Node(name, cpu, memory, status) ==
  [name |-> name, cpu |-> cpu, memory |-> memory, status |-> status]

\* d[k] = v on a dictionary held as a set of <<key, value>> pairs.
DictSet(d, k, v) == {p \in d : p[1] # k} \cup {<<k, v>>}

\* An average together with the calculate_average_load call it came from.
Measured(avg, c, h) ==
  [num |-> avg.num, den |-> avg.den, cycle |-> c, host |-> h]
NoAvg == [num |-> 0, den |-> 1, cycle |-> 0, host |-> NoHost]

NoTask == [vm |-> NoVm, id |-> 0]
NoImage == [Id |-> 0, repository |-> NoVm]

\* No stats read is in hand.
NoReads == [avg |-> <<>>, key |-> <<>>]

LogRecord(msg, name, detail) == [msg |-> msg, name |-> name, detail |-> detail]

InitState ==
  /\ lock = "free"
  /\ migration_queue = <<>>
  /\ host_loads = {}
  /\ logfile = {}
  /\ m_pc = "list" /\ cycle = 1 /\ hosts = <<>> /\ todo = {}
  /\ host = NoHost /\ host_vms = <<>> /\ avg_cpu = NoAvg /\ avg_mem = NoAvg
  /\ host_status = "normal" /\ max_vm = NoVm
  /\ e_pc = "check" /\ vm_migrate = NoTask /\ new_image = NoImage
  /\ containers = [vm \in VMs |-> "running"]
  /\ images = {}
  /\ launched = {}
  /\ pushed = <<>>
  /\ calls = <<>>
  /\ stats_read = NoReads

Init == InitState /\ arg = <<>> /\ ret = <<>>

\* ---------------------------------------------------------- monitor_hosts
\* Mutant: the loop of line 133 runs over every configured host.
HostSetConfigured(listed) == Hosts

\* Line 133: the set of the compose projects of the listed containers.
HostSet(listed) == {Label(listed[i]) : i \in 1..Len(listed)}

\* Line 134: the listed containers of host h, in the order of the listing.
HostVms(listed, h) == SelectSeq(listed, LAMBDA vm : Label(vm) = h)

\* Line 132: the runtime lists any of the containers, in its order.
MonitorList ==
  /\ m_pc = "list"
  /\ \E S \in SUBSET VMs :
       LET listed == SelectSeq(VMOrder, LAMBDA vm : vm \in S) IN
       /\ hosts' = listed
       /\ todo' = HostSet(listed)
  /\ m_pc' = "for"
  /\ UNCHANGED <<lock, migration_queue, host_loads, logfile, cycle, host,
                 host_vms, avg_cpu, avg_mem, host_status, max_vm,
                 executor_vars, runtime_vars, pushed, calls, stats_read,
                 fn_vars>>

\* Lines 133-136: the next host of the set (in any order), its containers,
\* one stats read of each, the averages and the status.  An exception of
\* calculate_average_load ends the thread.
MonitorSample ==
  /\ m_pc = "for" /\ todo # {}
  /\ \E h \in todo :
       LET vms == HostVms(hosts, h) IN
       \E reads \in [Seq2Set(vms) -> RuntimeStats] :
         LET r == calculate_average_load(vms, reads) IN
         /\ host' = h
         /\ host_vms' = vms
         /\ stats_read' = [avg |-> reads, key |-> <<>>]
         /\ IF r.err # "none"
            THEN /\ m_pc' = "dead"
                 /\ UNCHANGED <<avg_cpu, avg_mem, host_status>>
            ELSE /\ avg_cpu' = Measured(r.avg_cpu, cycle, h)
                 /\ avg_mem' = Measured(r.avg_mem, cycle, h)
                 /\ host_status' = determine_host_status(r.avg_cpu, r.avg_mem)
                 /\ m_pc' = "acquire"
  /\ UNCHANGED <<lock, migration_queue, host_loads, logfile, cycle, hosts, todo,
                 max_vm, executor_vars, runtime_vars, pushed, calls, fn_vars>>

\* Line 138: with lock.
MonitorAcquire ==
  /\ m_pc = "acquire" /\ lock = "free"
  /\ lock' = "monitor"
  /\ m_pc' = "write"
  /\ UNCHANGED <<migration_queue, host_loads, logfile, cycle, hosts, todo, host,
                 host_vms, avg_cpu, avg_mem, host_status, max_vm,
                 executor_vars, runtime_vars, pushed, calls, stats_read,
                 fn_vars>>

\* Mutant: the Node already stored for the host is updated in place and
\* keeps its memory figure.
NodeKeepingMemory ==
  LET old == {p \in host_loads : p[1] = host}
  IN Node(host, avg_cpu,
          IF old = {} THEN avg_mem ELSE (CHOOSE p \in old : TRUE)[2].memory,
          host_status)

\* Mutant: the Node already stored for the host is updated in place and
\* keeps its status.
NodeKeepingStatus ==
  LET old == {p \in host_loads : p[1] = host}
  IN Node(host, avg_cpu, avg_mem,
          IF old = {} THEN host_status ELSE (CHOOSE p \in old : TRUE)[2].status)

\* The Node line 139 stores.
NewNode == Node(host, avg_cpu, avg_mem, host_status)

\* Lines 139-140.
MonitorWrite ==
  /\ m_pc = "write"
  /\ host_loads' = DictSet(host_loads, host, NewNode)
  /\ m_pc' = IF host_status = "overloaded" THEN "select" ELSE "release"
  /\ UNCHANGED <<lock, migration_queue, logfile, cycle, hosts, todo, host,
                 host_vms, avg_cpu, avg_mem, host_status, max_vm,
                 executor_vars, runtime_vars, pushed, calls, stats_read,
                 fn_vars>>

\* Line 141: two more stats reads of every container of the host.  An
\* exception leaves the with block (releasing the lock) and ends the thread.
MonitorSelect ==
  /\ m_pc = "select"
  /\ \E sel \in [Seq2Set(host_vms) -> RuntimeStats \X RuntimeStats] :
       LET r == max_vm_of(host_vms, sel) IN
       IF r.err # "none"
       THEN /\ m_pc' = "dead" /\ lock' = "free"
            /\ UNCHANGED <<max_vm, stats_read>>
       ELSE /\ m_pc' = "put" /\ max_vm' = r.vm
            /\ stats_read' = [stats_read EXCEPT !.key = sel]
            /\ UNCHANGED lock
  /\ UNCHANGED <<migration_queue, host_loads, logfile, cycle, hosts, todo, host,
                 host_vms, avg_cpu, avg_mem, host_status,
                 executor_vars, runtime_vars, pushed, calls, fn_vars>>

\* Mutant: a put that is skipped while a container of the same host is queued.
QueuePutOncePerHost(q, vm, id) ==
  IF \E i \in 1..Len(q) : Label(q[i].vm) = Label(vm)
  THEN q ELSE Append(q, [vm |-> vm, id |-> id])

\* Mutant: a queue of capacity 1 whose put gives up when it is full.
QueuePutBounded(q, vm, id) ==
  IF Len(q) >= 1 THEN q ELSE Append(q, [vm |-> vm, id |-> id])

\* Mutant: a LIFO queue.
QueuePutFront(q, vm, id) == <<[vm |-> vm, id |-> id]>> \o q

\* The queue after put(vm); id numbers the puts.
QueuePut(q, vm, id) == Append(q, [vm |-> vm, id |-> id])

\* Line 142.
MonitorPut ==
  /\ m_pc = "put"
  /\ migration_queue' = QueuePut(migration_queue, max_vm, Len(pushed) + 1)
  /\ pushed' = Append(pushed, [host |-> host, cycle |-> cycle, vm |-> max_vm])
  /\ m_pc' = "release"
  /\ UNCHANGED <<lock, host_loads, logfile, cycle, hosts, todo, host, host_vms,
                 avg_cpu, avg_mem, host_status, max_vm,
                 executor_vars, runtime_vars, calls, stats_read, fn_vars>>

\* End of the with block and lines 144-145.
MonitorRelease ==
  /\ m_pc = "release"
  /\ lock' = "free"
  /\ logfile' = logfile \cup {LogRecord("Host", host, host_status)}
  /\ todo' = todo \ {host}
  /\ m_pc' = "for"
  /\ stats_read' = NoReads
  /\ UNCHANGED <<migration_queue, host_loads, cycle, hosts, host, host_vms,
                 avg_cpu, avg_mem, host_status, max_vm,
                 executor_vars, runtime_vars, pushed, calls, fn_vars>>

\* Line 146 and the next pass of the loop.
MonitorSleep ==
  /\ m_pc = "for" /\ todo = {}
  /\ IF cycle < MaxCycles
     THEN cycle' = cycle + 1 /\ m_pc' = "list"
     ELSE cycle' = cycle /\ m_pc' = "done"
  /\ UNCHANGED <<lock, migration_queue, host_loads, logfile, hosts, todo, host,
                 host_vms, avg_cpu, avg_mem, host_status, max_vm,
                 executor_vars, runtime_vars, pushed, calls, stats_read,
                 fn_vars>>

\* ------------------------------------------------------- handle_migration
\* Line 162: the queue is not empty.  (When it is empty the thread sleeps
\* and tests again, which changes nothing.)
\* Mutant: the loop goes for the lock without looking at the queue.
ExecCheckBlind ==
  /\ e_pc = "check"
  /\ e_pc' = "acquire"
  /\ UNCHANGED <<lock, migration_queue, host_loads, logfile, monitor_vars,
                 vm_migrate, new_image, runtime_vars, pushed, calls, stats_read,
                 fn_vars>>

ExecCheck ==
  /\ e_pc = "check" /\ migration_queue # <<>>
  /\ e_pc' = "acquire"
  /\ UNCHANGED <<lock, migration_queue, host_loads, logfile, monitor_vars,
                 vm_migrate, new_image, runtime_vars, pushed, calls, stats_read,
                 fn_vars>>

\* Mutant: the lock is taken for the get() alone, the migration runs
\* outside it.
ExecAcquireForGetOnly ==
  /\ e_pc = "acquire" /\ lock = "free"
  /\ lock' = lock
  /\ e_pc' = "get"
  /\ UNCHANGED <<migration_queue, host_loads, logfile, monitor_vars,
                 vm_migrate, new_image, runtime_vars, pushed, calls, stats_read,
                 fn_vars>>

\* Line 163: with lock.
ExecAcquire ==
  /\ e_pc = "acquire" /\ lock = "free"
  /\ lock' = "executor"
  /\ e_pc' = "get"
  /\ UNCHANGED <<migration_queue, host_loads, logfile, monitor_vars,
                 vm_migrate, new_image, runtime_vars, pushed, calls, stats_read,
                 fn_vars>>

\* Queue.get(): the item delivered and the queue it leaves.
QueueFront(q) == Head(q)
\* Mutant: get() leaves the item on the queue.
QueueRestPeek(q) == q
QueueRest(q) == Tail(q)

\* Line 164: get() blocks while the queue is empty.
ExecGet ==
  /\ e_pc = "get" /\ migration_queue # <<>>
  /\ vm_migrate' = QueueFront(migration_queue)
  /\ migration_queue' = QueueRest(migration_queue)
  /\ e_pc' = "stop"
  /\ UNCHANGED <<lock, host_loads, logfile, monitor_vars, new_image,
                 runtime_vars, pushed, calls, stats_read, fn_vars>>

\* One call of the runtime made for the task being migrated.
Call(op, ok, image) ==
  [op |-> op, task |-> vm_migrate.id, vm |-> vm_migrate.vm, ok |-> ok,
   image |-> image]

\* Mutant: the container is started again (a rollback of the stop).
NotStopped(cs, vm) == [cs EXCEPT ![vm] = "running"]

\* The state of the containers after vm.stop() returned.
Stopped(cs, vm) == [cs EXCEPT ![vm] = "exited"]

\* Mutant: the lock is taken with acquire() and no try/finally, so an
\* exception ends the thread with the lock held.
ExecRaiseHoldingLock ==
  /\ lock' = lock
  /\ e_pc' = "dead"

\* An exception inside the with block: the lock is released and the
\* exception ends the thread (nothing catches it).
ExecRaise ==
  /\ lock' = "free"
  /\ e_pc' = "dead"

\* Lines 171-173.
ExecStop ==
  /\ e_pc = "stop"
  /\ \E ok \in BOOLEAN :
       /\ calls' = Append(calls, Call("stop", ok, 0))
       /\ IF ok
          THEN /\ containers' = Stopped(containers, vm_migrate.vm)
               /\ logfile' = logfile \cup {LogRecord("Stopped", vm_migrate.vm, "")}
               /\ e_pc' = "commit"
               /\ UNCHANGED lock
          ELSE /\ ExecRaise
               /\ UNCHANGED <<containers, logfile>>
  /\ UNCHANGED <<migration_queue, host_loads, monitor_vars, vm_migrate,
                 new_image, images, launched, pushed, stats_read, fn_vars>>

\* The image api_client.commit returns: a fresh Id, the migrated-<name>
\* repository.
Committed(vm) == [Id |-> Cardinality(images) + 1, repository |-> vm]

\* Lines 177-179.
ExecCommit ==
  /\ e_pc = "commit"
  /\ \E ok \in BOOLEAN :
       IF ok
       THEN /\ new_image' = Committed(vm_migrate.vm)
            /\ images' = images \cup {new_image'}
            /\ calls' = Append(calls, Call("commit", TRUE, new_image'.Id))
            /\ logfile' = logfile \cup {LogRecord("Committed", vm_migrate.vm, "")}
            /\ e_pc' = "run"
            /\ UNCHANGED lock
       ELSE /\ calls' = Append(calls, Call("commit", FALSE, 0))
            /\ ExecRaise
            /\ UNCHANGED <<new_image, images, logfile>>
  /\ UNCHANGED <<migration_queue, host_loads, monitor_vars, vm_migrate,
                 containers, launched, pushed, stats_read, fn_vars>>

\* Mutant: the container is started from the image committed before.
RunImageStale == new_image.Id - 1

\* The image line 182 starts the new container from.
RunImage == new_image.Id

\* Lines 182-184 and the end of the with block.
ExecRun ==
  /\ e_pc = "run"
  /\ \E ok \in BOOLEAN :
       /\ calls' = Append(calls, Call("run", ok, RunImage))
       /\ IF ok
          THEN /\ launched' = launched \cup
                     {[name |-> vm_migrate.vm, image |-> RunImage,
                       task |-> vm_migrate.id]}
               /\ logfile' = logfile \cup {LogRecord("Migrated", vm_migrate.vm, "localhost")}
               /\ lock' = "free"
               /\ e_pc' = "check"
          ELSE /\ ExecRaise
               /\ UNCHANGED <<launched, logfile>>
  /\ UNCHANGED <<migration_queue, host_loads, monitor_vars, vm_migrate,
                 new_image, containers, images, pushed, stats_read, fn_vars>>

\* ---------------------------------------------------------- specification
Next ==
  \/ MonitorList
  \/ MonitorSample
  \/ MonitorAcquire
  \/ MonitorWrite
  \/ MonitorSelect
  \/ MonitorPut
  \/ MonitorRelease
  \/ MonitorSleep
  \/ ExecCheck
  \/ ExecAcquire
  \/ ExecGet
  \/ ExecStop
  \/ ExecCommit
  \/ ExecRun

Spec == Init /\ [][Next]_vars

\* The two threads while no stop, commit or run call of the runtime fails,
\* each thread taking its next step whenever it stays able to.
ExecStopOk == ExecStop /\ e_pc' # "dead"
ExecCommitOk == ExecCommit /\ e_pc' # "dead"
ExecRunOk == ExecRun /\ e_pc' # "dead"

NextLive ==
  \/ MonitorList
  \/ MonitorSample
  \/ MonitorAcquire
  \/ MonitorWrite
  \/ MonitorSelect
  \/ MonitorPut
  \/ MonitorRelease
  \/ MonitorSleep
  \/ ExecCheck
  \/ ExecAcquire
  \/ ExecGet
  \/ ExecStopOk
  \/ ExecCommitOk
  \/ ExecRunOk

Fairness ==
  /\ WF_vars(MonitorList) /\ WF_vars(MonitorSample) /\ WF_vars(MonitorAcquire)
  /\ WF_vars(MonitorWrite) /\ WF_vars(MonitorSelect) /\ WF_vars(MonitorPut)
  /\ WF_vars(MonitorRelease) /\ WF_vars(MonitorSleep)
  /\ WF_vars(ExecCheck) /\ WF_vars(ExecAcquire) /\ WF_vars(ExecGet)
  /\ WF_vars(ExecStopOk) /\ WF_vars(ExecCommitOk) /\ WF_vars(ExecRunOk)

SpecLive == Init /\ [][NextLive]_vars /\ Fairness

\* ----------------------------------- determine_host_status on its own
\* The averages the function is applied to: every num/den with den in
\* 1..MaxDen and a value of at most MaxPct.
Averages == {[num |-> n, den |-> d] : n \in 0..(MaxPct * MaxDen), d \in 1..MaxDen}

InitClassify ==
  /\ InitState
  /\ arg \in {[avg_cpu |-> c, avg_mem |-> m] :
                c \in {x \in Averages : x.num <= MaxPct * x.den},
                m \in {x \in Averages : x.num <= MaxPct * x.den}}
  /\ ret = "none"

Classify ==
  /\ ret = "none"
  /\ ret' = determine_host_status(arg.avg_cpu, arg.avg_mem)
  /\ UNCHANGED <<lock, migration_queue, host_loads, logfile, monitor_vars,
                 executor_vars, runtime_vars, pushed, calls, stats_read, arg>>

SpecClassify == InitClassify /\ [][Classify]_vars

\* ------------------------------------- calculate_utilization on its own
\* The key sets of the dictionaries container.stats can return: a nested key
\* is present only inside its parent.
StatsKeySets ==
  {k \in SUBSET AllKeys :
     /\ "precpu_stats.cpu_usage" \in k => "precpu_stats" \in k
     /\ "precpu_stats.system_cpu_usage" \in k => "precpu_stats" \in k
     /\ "precpu_stats.cpu_usage.total_usage" \in k => "precpu_stats.cpu_usage" \in k}

\* The stats records the function is applied to: every key set, every
\* counter zero or positive, the previous counters below the current ones.
StatsRecords ==
  {Stats(k, total, pretotal, system, presystem, cpus, usage, limit) :
     k \in StatsKeySets, total \in {0, 1080}, pretotal \in {0, 1000},
     system \in {0, 5100}, presystem \in {0, 5000}, cpus \in {0, 1, 2},
     usage \in {0, 5}, limit \in {0, 100}}

\* calculate_utilization has not returned yet.
NotCalled == [err |-> "pending", cpu |-> 0, mem |-> 0]

InitUtil ==
  /\ InitState
  /\ arg \in StatsRecords
  /\ ret = NotCalled

Utilization ==
  /\ ret = NotCalled
  /\ ret' = calculate_utilization(arg)
  /\ UNCHANGED <<lock, migration_queue, host_loads, logfile, monitor_vars,
                 executor_vars, runtime_vars, pushed, calls, stats_read, arg>>

SpecUtil == InitUtil /\ [][Utilization]_vars

\* ------------------------------------ calculate_average_load on its own
\* The function is applied to every non-empty list of containers, each
\* container's one read returning any of six complete records.
SampleRecords == {Load(c, m) : c \in {10, 20, 30}, m \in {0, 5}}

VmLists ==
  {SelectSeq(VMOrder, LAMBDA vm : vm \in S) : S \in (SUBSET VMs) \ {{}}}

\* calculate_average_load has not returned yet.
NotAveraged ==
  [err |-> "pending", avg_cpu |-> [num |-> 0, den |-> 1],
   avg_mem |-> [num |-> 0, den |-> 1]]

InitAverage ==
  /\ InitState
  /\ arg \in {[vms |-> l, reads |-> r] : l \in VmLists, r \in [VMs -> SampleRecords]}
  /\ ret = NotAveraged

Average ==
  /\ ret = NotAveraged
  /\ ret' = calculate_average_load(arg.vms, arg.reads)
  /\ UNCHANGED <<lock, migration_queue, host_loads, logfile, monitor_vars,
                 executor_vars, runtime_vars, pushed, calls, stats_read, arg>>

SpecAverage == InitAverage /\ [][Average]_vars

\* ------------------------------------------------------------ the claims
\* The puts made for host h in cycle c.
PutsFor(h, c) == {i \in 1..Len(pushed) : pushed[i].host = h /\ pushed[i].cycle = c}

\* C1: when the lock is not held by the monitor, every host whose stored
\* Node is overloaded has the migration task of the cycle that wrote the
\* Node on record as put.
C1_WriteAndPutAtomic ==
  lock # "monitor" =>
    \A p \in host_loads :
      p[2].status = "overloaded" => PutsFor(p[1], p[2].cpu.cycle) # {}

\* C2: the registry holds at most one Node per host, and the cpu and the
\* memory average of every Node come from the same calculate_average_load
\* call (same cycle, same host).
C2_OneNodeOneCycle ==
  /\ \A p, q \in host_loads : p[1] = q[1] => p = q
  /\ \A p \in host_loads :
       /\ p[2].cpu.cycle = p[2].memory.cycle
       /\ p[2].cpu.host = p[2].memory.host

C2_Witness ==
  /\ e_pc \in {"stop", "commit", "run"}
  /\ \E p \in host_loads : p[1] = "h1" /\ p[2].cpu.cycle = 2 /\ p[2].cpu.den = 2
  /\ \E p \in host_loads : p[1] = "h2" /\ p[2].cpu.cycle = 1

\* The average x = num/den is above, below, equal to the number n.
Exceeds(x, n) == x.num > n * x.den
Below(x, n) == x.num < n * x.den
Is(x, n) == x.num = n * x.den

\* C3: determine_host_status returns overloaded iff cpu > 55 or mem > 55,
\* otherwise underloaded iff cpu < 20 and mem < 20, otherwise normal; the
\* comparisons are strict, as the five examples show.
C3_Classification ==
  ret # "none" =>
    /\ ret \in {"overloaded", "underloaded", "normal"}
    /\ ret = "overloaded" <=> (Exceeds(arg.avg_cpu, 55) \/ Exceeds(arg.avg_mem, 55))
    /\ ret = "underloaded" <=>
         /\ ~(Exceeds(arg.avg_cpu, 55) \/ Exceeds(arg.avg_mem, 55))
         /\ Below(arg.avg_cpu, 20) /\ Below(arg.avg_mem, 20)
    /\ (Is(arg.avg_cpu, 55) /\ Is(arg.avg_mem, 10)) => ret = "normal"
    /\ (Is(arg.avg_cpu, 20) /\ Is(arg.avg_mem, 10)) => ret = "normal"
    /\ (Is(arg.avg_cpu, 60) /\ Is(arg.avg_mem, 10)) => ret = "overloaded"
    /\ (Is(arg.avg_cpu, 10) /\ Is(arg.avg_mem, 10)) => ret = "underloaded"
    /\ (Is(arg.avg_cpu, 30) /\ Is(arg.avg_mem, 30)) => ret = "normal"

C3_Witness ==
  /\ ret = "normal"
  /\ arg.avg_cpu = [num |-> 55, den |-> 1]
  /\ arg.avg_mem = [num |-> 10, den |-> 1]

\* The monitor has left the with block of host h in the cycle that wrote
\* the Node n of h (or the thread has ended).
TurnOver(h, n) ==
  \/ m_pc \in {"release", "for", "list", "done", "dead"}
  \/ host # h
  \/ cycle # n.cpu.cycle

\* C4: a host classified overloaded is recorded as overloaded and gets
\* exactly one task, for one of its own containers, in that cycle; a host
\* classified normal or underloaded gets none.
C4_OneTaskPerOverloadedHost ==
  /\ (m_pc \in {"select", "put", "release"}) =>
       <<host, Node(host, avg_cpu, avg_mem, host_status)>> \in host_loads
  /\ \A i \in 1..Len(pushed) : Label(pushed[i].vm) = pushed[i].host
  /\ \A p \in host_loads :
       TurnOver(p[1], p[2]) =>
         Cardinality(PutsFor(p[1], p[2].cpu.cycle)) =
           IF p[2].status = "overloaded" THEN 1 ELSE 0

\* cpu + mem of one stats record.
Util(stats) ==
  calculate_utilization(stats).cpu + calculate_utilization(stats).mem

\* The three reads made of vm in the pass in hand: the one that went into
\* the average and the two of the key.
ReadsOf(vm) == {stats_read.avg[vm], stats_read.key[vm][1], stats_read.key[vm][2]}

\* vm is the first of vms with the largest u[vm].
FirstMax(vm, vms, u) ==
  \E i \in 1..Len(vms) :
    /\ vms[i] = vm
    /\ \A j \in 1..Len(vms) : u[vms[j]] <= u[vm]
    /\ \A j \in 1..(i - 1) : u[vms[j]] < u[vm]

\* C5: the container put on the queue is the first one with the largest
\* cpu + mem, for some choice of one of the cycle's samples per container.
C5_VictimIsArgmax ==
  m_pc = "put" =>
    \E pick \in [Seq2Set(host_vms) -> RuntimeStats] :
      /\ \A vm \in Seq2Set(host_vms) : pick[vm] \in ReadsOf(vm)
      /\ FirstMax(max_vm, host_vms,
                  [vm \in Seq2Set(host_vms) |-> Util(pick[vm])])

\* The stop calls in the order they were issued, and the tasks get() has
\* delivered, in order: a task is delivered when it is stopped or about to be.
StopCalls == SelectSeq(calls, LAMBDA c : c.op = "stop")
Deliveries ==
  [i \in 1..Len(StopCalls) |-> StopCalls[i].task]
    \o (IF e_pc = "stop" THEN <<vm_migrate.id>> ELSE <<>>)
NoDuplicates(seq) ==
  \A i, j \in 1..Len(seq) : seq[i] = seq[j] => i = j
QueuedIds == [i \in 1..Len(migration_queue) |-> migration_queue[i].id]

\* C6: every delivery is of a task that was put, no task is delivered twice,
\* and a delivered task is not on the queue again.
C6_DeliveredAtMostOnce ==
  /\ NoDuplicates(Deliveries \o QueuedIds)
  /\ \A i \in 1..Len(Deliveries) : Deliveries[i] \in 1..Len(pushed)
  /\ \A i \in 1..Len(calls) : calls[i].vm = pushed[calls[i].task].vm

C6_Witness ==
  /\ e_pc = "dead"
  /\ Len(StopCalls) = 2
  /\ migration_queue # <<>>

\* C7: the tasks are stopped in the order they were put (the i-th stop call
\* is for the i-th put).
C7_Fifo == \A i \in 1..Len(StopCalls) : StopCalls[i].task = i

C7_Witness ==
  /\ Len(StopCalls) >= 2
  /\ pushed[1].host # pushed[2].host
  /\ pushed[1].cycle = pushed[2].cycle

\* C8: a commit call directly follows the successful stop call of its task,
\* a run call directly follows the successful commit call of its task and
\* uses the image that call returned, and no task has a step issued twice.
C8_StopCommitRun ==
  /\ \A i \in 1..Len(calls) :
       /\ calls[i].op = "stop" =>
            i = 1 \/ calls[i - 1].task # calls[i].task
       /\ calls[i].op = "commit" =>
            /\ i > 1
            /\ calls[i - 1].op = "stop" /\ calls[i - 1].ok
            /\ calls[i - 1].task = calls[i].task
       /\ calls[i].op = "run" =>
            /\ i > 1
            /\ calls[i - 1].op = "commit" /\ calls[i - 1].ok
            /\ calls[i - 1].task = calls[i].task
            /\ calls[i].image = calls[i - 1].image
  /\ \A i, j \in 1..Len(calls) :
       (calls[i].task = calls[j].task /\ calls[i].op = calls[j].op) => i = j

C8_Witness ==
  \E i \in 1..Len(calls) :
    calls[i].op = "run" /\ calls[i].ok /\ calls[i].task = 2 /\ calls[i].image = 2

\* C9: a failed step is the last call ever made (no retry, no rollback, no
\* further step); its task is not on the queue and has started no
\* container; and when it is the commit that failed the container is left
\* stopped.
C9_AbandonedOnFailure ==
  \A i \in 1..Len(calls) :
    ~calls[i].ok =>
      /\ i = Len(calls)
      /\ \A k \in 1..Len(migration_queue) : migration_queue[k].id # calls[i].task
      /\ \A c \in launched : c.task # calls[i].task
      /\ calls[i].op \in {"commit", "run"} => containers[calls[i].vm] = "exited"

C9_Witness ==
  /\ Len(calls) >= 2
  /\ calls[Len(calls)].op = "commit" /\ ~calls[Len(calls)].ok
  /\ containers[calls[Len(calls)].vm] = "exited"
  /\ migration_queue # <<>>
  /\ m_pc = "done"

\* C10: every failed step has a MigrationStepFailure record naming the
\* container and the step, and the thread handling it has not ended.
C10_FailureLogged ==
  \A i \in 1..Len(calls) :
    ~calls[i].ok =>
      /\ LogRecord("MigrationStepFailure", calls[i].vm, calls[i].op) \in logfile
      /\ e_pc # "dead"

\* C11: a thread that has ended on an exception does not hold the lock, and
\* the other thread, when it waits for the lock, can take it once its peer
\* has ended.
C11_FailureReleasesLock ==
  /\ e_pc = "dead" => lock # "executor"
  /\ m_pc = "dead" => lock # "monitor"
  /\ (e_pc = "dead" /\ m_pc = "acquire") => lock = "free"
  /\ (m_pc = "dead" /\ e_pc = "acquire") => lock = "free"

C11_Witness ==
  /\ e_pc = "dead"
  /\ lock = "monitor"
  /\ m_pc = "put"

\* The run call of the task of the i-th put has returned.
Executed(i) ==
  \E k \in 1..Len(calls) :
    calls[k].op = "run" /\ calls[k].ok /\ calls[k].task = i

\* C12: while no runtime call fails and both threads keep running, the task
\* of every put is eventually stopped, committed and run, and never run
\* twice.
C12_EveryTaskExecuted ==
  /\ \A i \in 1..(MaxCycles * Cardinality(Hosts)) :
       (Len(pushed) >= i) ~> Executed(i)
  /\ [](\A j, k \in 1..Len(calls) :
          (calls[j].op = "run" /\ calls[k].op = "run"
             /\ calls[j].task = calls[k].task) => j = k)

C12_Witness ==
  /\ Executed(2)
  /\ Len(pushed) >= 3
  /\ migration_queue # <<>>

\* The record carries no preceding sample: precpu_stats or its cpu_usage is
\* absent, or the previous usage or system counter is absent or zero.
NoPrecedingSample(stats) ==
  \/ "precpu_stats" \notin stats.keys
  \/ "precpu_stats.cpu_usage" \notin stats.keys
  \/ "precpu_stats.cpu_usage.total_usage" \notin stats.keys
  \/ stats.pre_total_usage = 0
  \/ "precpu_stats.system_cpu_usage" \notin stats.keys
  \/ stats.pre_system_cpu_usage = 0

\* C13: for a stats record with no preceding sample, the cpu percentage
\* calculate_utilization returns is 0.
C13_FirstSampleZero ==
  (ret.err = "none" /\ NoPrecedingSample(arg)) => ret.cpu = 0

\* C14: calculate_utilization returns a pair of percentages for every stats
\* record, whichever counters are absent or zero; it never raises.
C14_NeverRaises == ret # NotCalled => ret.err = "none"

\* C15: every host the monitor computes an average for has at least one
\* listed container, all of them its own; calculate_average_load is never
\* applied to an empty list.
C15_NeverEmptyWorkloadSet ==
  host # NoHost =>
    /\ host_vms # <<>>
    /\ \A i \in 1..Len(host_vms) : Label(host_vms[i]) = host

\* A host with a Node from the first cycle has no container listed in the
\* second, and the average of the other host has been computed.
C15_Witness ==
  /\ cycle = 2 /\ hosts = <<"c">> /\ host = "h2" /\ m_pc = "acquire"
  /\ \E p \in host_loads : p[1] = "h1"

\* The cpu and memory percentage of the record one read returned, from its
\* counters.
CpuSample(stats) ==
  ((stats.total_usage - stats.pre_total_usage) * stats.online_cpus * 100)
    \div (stats.system_cpu_usage - stats.pre_system_cpu_usage)
MemSample(stats) == (stats.usage * 100) \div stats.limit

RECURSIVE TotalCpu(_, _), TotalMem(_, _)
\* The sums of the samples of the containers of the set S.
TotalCpu(S, reads) ==
  IF S = {} THEN 0
  ELSE LET vm == CHOOSE x \in S : TRUE
       IN CpuSample(reads[vm]) + TotalCpu(S \ {vm}, reads)
TotalMem(S, reads) ==
  IF S = {} THEN 0
  ELSE LET vm == CHOOSE x \in S : TRUE
       IN MemSample(reads[vm]) + TotalMem(S \ {vm}, reads)

\* C16: for a non-empty list, calculate_average_load returns the sum of
\* the cpu samples over the number of containers and the sum of the memory
\* samples over the number of containers, one sample per container; cpu
\* samples 10, 20 and 30 give an average of 20.
C16_ArithmeticMean ==
  ret # NotAveraged =>
    LET S == Seq2Set(arg.vms)
        n == Cardinality(S)
    IN /\ ret.err = "none"
       /\ ret.avg_cpu.num * n = TotalCpu(S, arg.reads) * ret.avg_cpu.den
       /\ ret.avg_mem.num * n = TotalMem(S, arg.reads) * ret.avg_mem.den
       /\ ({CpuSample(arg.reads[vm]) : vm \in S} = {10, 20, 30} /\ n = 3)
            => Is(ret.avg_cpu, 20)

C16_Witness ==
  /\ ret # NotAveraged
  /\ arg.vms = <<"a", "b", "c">>
  /\ CpuSample(arg.reads["a"]) = 30 /\ CpuSample(arg.reads["b"]) = 10
  /\ CpuSample(arg.reads["c"]) = 20
  /\ Is(ret.avg_cpu, 20)

\* C17: whenever the monitor leaves its critical section for a host it found
\* overloaded, the task of this host and cycle is the newest element of the
\* queue, whatever the queue already held; every put lengthens the queue.
C17_NoPendingCheck ==
  (m_pc = "release" /\ host_status = "overloaded") =>
    /\ migration_queue # <<>>
    /\ migration_queue[Len(migration_queue)] = [vm |-> max_vm, id |-> Len(pushed)]
    /\ pushed[Len(pushed)] = [host |-> host, cycle |-> cycle, vm |-> max_vm]

\* Every task put so far is still queued, the same container twice.
C17_Witness ==
  /\ m_pc = "release" /\ host_status = "overloaded"
  /\ Len(migration_queue) = MaxCycles * Cardinality(Hosts)
  /\ \E i, j \in 1..Len(migration_queue) :
       i < j /\ migration_queue[i].vm = migration_queue[j].vm

\* The executor is between its pop and the return of run.
Migrating == e_pc \in {"stop", "commit", "run"}

\* C18 as stated: while the executor is executing a migration, a monitor
\* that has classified a host can enter its critical section (to replace
\* the Node and put a task) without waiting.
C18_MigrationNeverBlocksMonitor ==
  (Migrating /\ m_pc = "acquire") => ENABLED MonitorAcquire

\* C18 amended: while the executor is executing a migration it holds the
\* lock; the monitor is outside its critical section, where it can list,
\* sample and classify but neither replace a Node nor put a task.
C18_MigrationHoldsLock ==
  Migrating =>
    /\ lock = "executor"
    /\ m_pc \notin {"write", "select", "put", "release"}
    /\ ~ ENABLED MonitorAcquire

\* The monitor classified host h2 as overloaded and waits for the lock the
\* executor holds during the commit of the task of h1.
C18_Witness ==
  /\ e_pc = "commit" /\ Label(vm_migrate.vm) = "h1"
  /\ m_pc = "acquire" /\ host = "h2" /\ host_status = "overloaded"

\* C19: whenever the executor is about to take the lock or to call get()
\* inside it, the queue is not empty; it never waits for a task while the
\* monitor waits for the lock.
C19_GetNeverBlocks ==
  /\ e_pc \in {"acquire", "get"} => migration_queue # <<>>
  /\ ~ (e_pc = "get" /\ ~ ENABLED ExecGet /\ m_pc = "acquire")

\* The executor is at get() with the one queued task while the monitor
\* waits for the lock.
C19_Witness ==
  /\ e_pc = "get" /\ lock = "executor" /\ Len(migration_queue) = 1
  /\ m_pc = "acquire"

\* C20: every Node of the registry is stored under its own name and its
\* status is determine_host_status of its own cpu and memory averages.
C20_NodeConsistent ==
  \A p \in host_loads :
    /\ p[2].name = p[1]
    /\ p[2].status = determine_host_status(p[2].cpu, p[2].memory)

\* The registry holds an overloaded Node and one that is not, the Node of
\* h1 rewritten in the second cycle with a status other than its first.
C20_Witness ==
  /\ \E p \in host_loads :
       p[1] = "h1" /\ p[2].status = "underloaded" /\ p[2].cpu.cycle = 2
  /\ \E p \in host_loads : p[1] = "h2" /\ p[2].status = "overloaded"
  /\ \E i \in 1..Len(pushed) : pushed[i].host = "h1" /\ pushed[i].cycle = 1

====
